---- MODULE Spec2Model ----
(***************************************************************************)
(* Model of src/pipelines/sequence_classification.rs (rust-bert):          *)
(*   - SequenceClassificationOption::new / model_type / forward_t          *)
(*   - SequenceClassificationModel::new (facade construction)              *)
(*   - prepare_for_model, predict, predict_multilabel                      *)
(* Tensors are sequences of rows; sentence and class indices are 0-based   *)
(* as in the source, so element i of the source is element i + 1 here.     *)
(* Scores are fixed-point numbers in thousandths (Scale = 1.0).            *)
(***************************************************************************)
EXTENDS Integers, Sequences, FiniteSets, TLC

VARIABLES
    pc,                  \* position of the operation under way
    cfg,                 \* SequenceClassificationConfig given to new(), and what its resources hold
    steps,               \* the steps of new() executed so far, in order
    tokenizer,           \* local tokenizer of new()
    model_config,        \* local model_config of new()
    sequence_classifier, \* local sequence_classifier of new()
    label_mapping,       \* local label_mapping of new()
    var_store,           \* local var_store of new(): "none" | "empty" | "loaded"
    result,              \* what new() returned: "pending" | Ok | Err | panic
    facade,              \* the SequenceClassificationModel the caller holds, or NoFacade
    opt_in,              \* arguments of a direct SequenceClassificationOption::new call
    opt_out,             \* its result
    reported,            \* what model_type() returned on opt_out
    fwd,                 \* a direct forward_t call: its arguments, the answer of the model, its result
    input,               \* the batch of texts given to predict / predict_multilabel
    threshold,           \* the threshold given to predict_multilabel
    input_tensor,        \* the tensor prepare_for_model built
    output,              \* the activated (softmax / sigmoid) output tensor
    labels,              \* the value returned by predict / predict_multilabel
    outcome              \* how the call ended: "none" | "ok" | "err" | "panic"

vars == <<pc, cfg, steps, tokenizer, model_config, sequence_classifier, label_mapping,
          var_store, result, facade, opt_in, opt_out, reported, fwd, input, threshold,
          input_tensor, output, labels, outcome>>

newVars == <<cfg, steps, tokenizer, model_config, sequence_classifier, label_mapping,
             var_store, result>>
optVars == <<opt_in, opt_out, reported, fwd>>
callVars == <<input, threshold, input_tensor, output, labels, outcome>>

None == "none"

\* A variable that holds nothing yet.
Unset == [kind |-> "none"]

\* Option<T>: None is the empty sequence, Some(x) the sequence of x alone.
NoneOpt == <<>>
Some(x) == <<x>>

\* ------------------------------------------------------------------ bounds

\* Largest number of texts in one batch.
MaxBatch == 3
\* Number of classes of the classification head (second dimension of the logits).
NumClasses == 2
\* Number of distinct token ids of the vocabulary (the pad id is one of them).
NumTokenIds == 3

\* ------------------------------------------------------- model families

\* The nine family tags matched by SequenceClassificationOption::new.
ModelType == {"Bert", "DistilBert", "Roberta", "XLMRoberta", "Albert", "Bart",
              "Electra", "Marian", "T5"}

\* The variants of ConfigOption (pipelines/common.rs).
ConfigVariants == {"Bart", "Bert", "DistilBert", "Electra", "Marian", "T5", "Albert"}

\* ConfigOption::from_file: the configuration variant loaded for a family.
ConfigOption_from_file(model_type) ==
    IF model_type \in {"Bert", "Roberta", "XLMRoberta"} THEN "Bert" ELSE model_type

Panic(msg) == [kind |-> "panic", msg |-> msg]
Option(variant) == [kind |-> "option", variant |-> variant]

\* A plausible slip: the Bart arm tests for the configuration its message names.
OptionNewBartTakesBert(model_type, config) ==
    CASE model_type = "Bert" ->
            IF config = "Bert" THEN Option("Bert")
            ELSE Panic("You can only supply a BertConfig for Bert!")
      [] model_type = "DistilBert" ->
            IF config = "DistilBert" THEN Option("DistilBert")
            ELSE Panic("You can only supply a DistilBertConfig for DistilBert!")
      [] model_type = "Roberta" ->
            IF config = "Bert" THEN Option("Roberta")
            ELSE Panic("You can only supply a BertConfig for Roberta!")
      [] model_type = "XLMRoberta" ->
            IF config = "Bert" THEN Option("XLMRoberta")
            ELSE Panic("You can only supply a BertConfig for Roberta!")
      [] model_type = "Albert" ->
            IF config = "Albert" THEN Option("Albert")
            ELSE Panic("You can only supply an AlbertConfig for Albert!")
      [] model_type = "Bart" ->
            IF config = "Bert" THEN Option("Bart")
            ELSE Panic("You can only supply a BertConfig for Bert!")
      [] model_type = "Electra" -> Panic("SequenceClassification not implemented for Electra!")
      [] model_type = "Marian" -> Panic("SequenceClassification not implemented for Marian!")
      [] model_type = "T5" -> Panic("SequenceClassification not implemented for T5!")

\* SequenceClassificationOption::new(model_type, p, config).
OptionNew(model_type, config) ==
    CASE model_type = "Bert" ->
            IF config = "Bert" THEN Option("Bert")
            ELSE Panic("You can only supply a BertConfig for Bert!")
      [] model_type = "DistilBert" ->
            IF config = "DistilBert" THEN Option("DistilBert")
            ELSE Panic("You can only supply a DistilBertConfig for DistilBert!")
      [] model_type = "Roberta" ->
            IF config = "Bert" THEN Option("Roberta")
            ELSE Panic("You can only supply a BertConfig for Roberta!")
      [] model_type = "XLMRoberta" ->
            IF config = "Bert" THEN Option("XLMRoberta")
            ELSE Panic("You can only supply a BertConfig for Roberta!")
      [] model_type = "Albert" ->
            IF config = "Albert" THEN Option("Albert")
            ELSE Panic("You can only supply an AlbertConfig for Albert!")
      [] model_type = "Bart" ->
            IF config = "Bart" THEN Option("Bart")
            ELSE Panic("You can only supply a BertConfig for Bert!")
      [] model_type = "Electra" -> Panic("SequenceClassification not implemented for Electra!")
      [] model_type = "Marian" -> Panic("SequenceClassification not implemented for Marian!")
      [] model_type = "T5" -> Panic("SequenceClassification not implemented for T5!")

\* A plausible slip: XLMRoberta echoes its own tag.
ModelTypeOfEcho(option) == option.variant

\* SequenceClassificationOption::model_type(&self).
ModelTypeOf(option) ==
    CASE option.variant = "Bert" -> "Bert"
      [] option.variant = "Roberta" -> "Roberta"
      [] option.variant = "XLMRoberta" -> "Roberta"
      [] option.variant = "DistilBert" -> "DistilBert"
      [] option.variant = "Albert" -> "Albert"
      [] option.variant = "Bart" -> "Bart"

\* ------------------------------------------- SequenceClassificationModel::new

NoFacade == Unset

Pending == [kind |-> "pending"]
Ok(f) == [kind |-> "ok", facade |-> f]
Err(step) == [kind |-> "err", step |-> step]
PanicAt(step, msg) == [kind |-> "panic", step |-> step, msg |-> msg]

\* The configurations new() can be given: the family tag, whether each resource
\* resolves, and what the resolved files hold.
Configs ==
    [model_type : ModelType,
     config_resource : {"ok", "missing"},
     vocab_resource : {"ok", "missing"},
     model_resource : {"ok", "missing"},
     merges_resource : {None, "ok", "missing"},
     vocab_file : {"ok", "malformed"},
     weights_file : {"ok", "mismatch"},
     pad_id : {NoneOpt, Some(0)},
     id2label : {"complete", "partial"}]

\* The text of class id i in the model configuration.
LabelText(i) == <<"LABEL", i>>

\* model_config.get_label_mapping(): a complete mapping has every class id of the
\* head, a partial one lacks the last.
LabelMappingOf(id2label) ==
    IF id2label = "complete"
    THEN [i \in 0..(NumClasses - 1) |-> LabelText(i)]
    ELSE [i \in 0..(NumClasses - 2) |-> LabelText(i)]

\* A plausible slip: the ? is missing, the failure is dropped and new() goes on.
TryUnchecked(status, step, next) == [pc |-> next, result |-> Pending]

\* expr? : on failure new() returns Err at once, otherwise it goes on to next.
Try(status, step, next) ==
    IF status = "ok"
    THEN [pc |-> next, result |-> Pending]
    ELSE [pc |-> "returned", result |-> Err(step)]

StepOrder == <<"config_resource", "vocab_resource", "model_resource", "merges_resource",
               "tokenizer", "var_store", "model_config", "sequence_classifier",
               "label_mapping", "load">>

InitNew ==
    /\ pc = "config_resource"
    /\ cfg \in Configs
    /\ steps = <<>>
    /\ tokenizer = Unset
    /\ model_config = Unset
    /\ sequence_classifier = Unset
    /\ label_mapping = <<>>
    /\ var_store = None
    /\ result = Pending
    /\ facade = NoFacade
    /\ opt_in = Unset /\ opt_out = Unset /\ reported = None /\ fwd = Unset
    /\ input = <<>> /\ threshold = 0 /\ input_tensor = <<>>
    /\ output = <<>> /\ labels = <<>> /\ outcome = None

newLocals == <<tokenizer, model_config, sequence_classifier, label_mapping, var_store>>

\* let config_path = config.config_resource.get_local_path()?;
ResolveConfig ==
    /\ pc = "config_resource"
    /\ steps' = Append(steps, "config_resource")
    /\ LET t == Try(cfg.config_resource, "config_resource", "vocab_resource")
       IN pc' = t.pc /\ result' = t.result
    /\ UNCHANGED <<cfg, newLocals, facade, optVars, callVars>>

\* let vocab_path = config.vocab_resource.get_local_path()?;
ResolveVocab ==
    /\ pc = "vocab_resource"
    /\ steps' = Append(steps, "vocab_resource")
    /\ LET t == Try(cfg.vocab_resource, "vocab_resource", "model_resource")
       IN pc' = t.pc /\ result' = t.result
    /\ UNCHANGED <<cfg, newLocals, facade, optVars, callVars>>

\* let weights_path = config.model_resource.get_local_path()?;
ResolveWeights ==
    /\ pc = "model_resource"
    /\ steps' = Append(steps, "model_resource")
    /\ LET t == Try(cfg.model_resource, "model_resource", "merges_resource")
       IN pc' = t.pc /\ result' = t.result
    /\ UNCHANGED <<cfg, newLocals, facade, optVars, callVars>>

\* let merges_path = if let Some(r) = &config.merges_resource { Some(r.get_local_path()?) }
\*                   else { None };
ResolveMerges ==
    /\ pc = "merges_resource"
    /\ IF cfg.merges_resource = None
       THEN /\ pc' = "tokenizer"
            /\ UNCHANGED <<steps, result>>
       ELSE /\ steps' = Append(steps, "merges_resource")
            /\ LET t == Try(cfg.merges_resource, "merges_resource", "tokenizer")
               IN pc' = t.pc /\ result' = t.result
    /\ UNCHANGED <<cfg, newLocals, facade, optVars, callVars>>

\* let tokenizer = TokenizerOption::from_file(...)?;
BuildTokenizer ==
    /\ pc = "tokenizer"
    /\ steps' = Append(steps, "tokenizer")
    /\ LET t == Try(cfg.vocab_file, "tokenizer", "var_store")
       IN /\ pc' = t.pc
          /\ result' = t.result
          /\ tokenizer' = IF t.pc = "returned" THEN tokenizer
                          ELSE [kind |-> "tokenizer", pad_id |-> cfg.pad_id]
    /\ UNCHANGED <<cfg, model_config, sequence_classifier, label_mapping, var_store,
                   facade, optVars, callVars>>

\* let mut var_store = VarStore::new(device);
CreateVarStore ==
    /\ pc = "var_store"
    /\ steps' = Append(steps, "var_store")
    /\ var_store' = "empty"
    /\ pc' = "model_config"
    /\ UNCHANGED <<cfg, tokenizer, model_config, sequence_classifier, label_mapping,
                   result, facade, optVars, callVars>>

\* let model_config = ConfigOption::from_file(config.model_type, config_path);
LoadConfig ==
    /\ pc = "model_config"
    /\ steps' = Append(steps, "model_config")
    /\ model_config' = [kind |-> "config",
                        variant |-> ConfigOption_from_file(cfg.model_type),
                        id2label |-> cfg.id2label]
    /\ pc' = "sequence_classifier"
    /\ UNCHANGED <<cfg, tokenizer, sequence_classifier, label_mapping, var_store,
                   result, facade, optVars, callVars>>

\* let sequence_classifier =
\*     SequenceClassificationOption::new(config.model_type, &var_store.root(), &model_config);
BuildOption ==
    /\ pc = "sequence_classifier"
    /\ steps' = Append(steps, "sequence_classifier")
    /\ LET o == OptionNew(cfg.model_type, model_config.variant)
       IN IF o.kind = "panic"
          THEN /\ pc' = "panicked"
               /\ result' = PanicAt("sequence_classifier", o.msg)
               /\ UNCHANGED sequence_classifier
          ELSE /\ pc' = "label_mapping"
               /\ sequence_classifier' = o
               /\ UNCHANGED result
    /\ UNCHANGED <<cfg, tokenizer, model_config, label_mapping, var_store,
                   facade, optVars, callVars>>

\* let label_mapping = model_config.get_label_mapping();
DeriveLabelMapping ==
    /\ pc = "label_mapping"
    /\ steps' = Append(steps, "label_mapping")
    /\ label_mapping' = LabelMappingOf(model_config.id2label)
    /\ pc' = "load"
    /\ UNCHANGED <<cfg, tokenizer, model_config, sequence_classifier, var_store,
                   result, facade, optVars, callVars>>

\* var_store.load(weights_path)?;  Ok(SequenceClassificationModel { ... })
LoadWeights ==
    /\ pc = "load"
    /\ steps' = Append(steps, "load")
    /\ LET t == Try(cfg.weights_file, "load", "ready")
       IN IF t.pc = "returned"
          THEN /\ pc' = t.pc
               /\ result' = t.result
               /\ UNCHANGED <<var_store, facade>>
          ELSE /\ pc' = "ready"
               /\ var_store' = "loaded"
               /\ facade' = [kind |-> "facade",
                             tokenizer |-> tokenizer,
                             sequence_classifier |-> sequence_classifier,
                             label_mapping |-> label_mapping,
                             var_store |-> "loaded"]
               /\ result' = Ok(facade')
    /\ UNCHANGED <<cfg, tokenizer, model_config, sequence_classifier, label_mapping,
                   optVars, callVars>>

\* ----------------------- direct calls of SequenceClassificationOption's methods

OptionArgs == [kind : {"args"}, model_type : ModelType, config : ConfigVariants]

InitDirect ==
    /\ pc = "option_new"
    /\ opt_in \in OptionArgs
    /\ opt_out = Unset /\ reported = None /\ fwd = Unset
    /\ cfg = Unset /\ steps = <<>>
    /\ tokenizer = Unset /\ model_config = Unset /\ sequence_classifier = Unset
    /\ label_mapping = <<>> /\ var_store = None
    /\ result = Unset
    /\ facade = NoFacade
    /\ input = <<>> /\ threshold = 0 /\ input_tensor = <<>>
    /\ output = <<>> /\ labels = <<>> /\ outcome = None

\* SequenceClassificationOption::new(model_type, p, &config), called by a user.
OptionNewCall ==
    /\ pc = "option_new"
    /\ opt_out' = OptionNew(opt_in.model_type, opt_in.config)
    /\ pc' = IF opt_out'.kind = "panic" THEN "option_panicked" ELSE "option_built"
    /\ UNCHANGED <<opt_in, reported, fwd, newVars, facade, callVars>>

\* option.model_type(), on an option that was built.
ModelTypeCall ==
    /\ pc = "option_built"
    /\ reported' = ModelTypeOf(opt_out)
    /\ pc' = "option_reported"
    /\ UNCHANGED <<opt_in, opt_out, fwd, newVars, facade, callVars>>

NextNew ==
    \/ ResolveConfig
    \/ ResolveVocab
    \/ ResolveWeights
    \/ ResolveMerges
    \/ BuildTokenizer
    \/ CreateVarStore
    \/ LoadConfig
    \/ BuildOption
    \/ DeriveLabelMapping
    \/ LoadWeights
    \/ OptionNewCall
    \/ ModelTypeCall

SpecNew == (InitNew \/ InitDirect) /\ [][NextNew]_vars

\* ------------------------------------------------------ the ready facade

\* The facades new() can return: LoadWeights builds one from the tokenizer, the
\* model option and the label mapping of a configuration whose every step succeeded.
ReadyFacades ==
    [kind : {"facade"},
     tokenizer : [kind : {"tokenizer"}, pad_id : {NoneOpt, Some(0)}],
     sequence_classifier : {OptionNew(t, ConfigOption_from_file(t)) :
                               t \in ModelType \ {"Electra", "Marian", "T5"}},
     label_mapping : {LabelMappingOf(m) : m \in {"complete", "partial"}},
     var_store : {"loaded"}]

\* ------------------------------------------------------ prepare_for_model

\* encode_list(input, 128, &TruncationStrategy::LongestFirst, 0)
MaxSeqLen == 128

\* Unit of the fixed-point scores: 1.0 is Scale thousandths.
Scale == 1000

Min(a, b) == IF a < b THEN a ELSE b

\* A text, as the token ids its untruncated tokenization has.
RawTokens(len) == [k \in 1..len |-> (k + len) % NumTokenIds]

\* The tokenizer's encoding of one text: its token ids, truncated to max_len.
Encode(text, max_len) == SubSeq(text, 1, Min(Len(text), max_len))

\* self.tokenizer.encode_list(input, 128, LongestFirst, 0)
EncodeList(text_list, max_len) ==
    [k \in 1..Len(text_list) |-> Encode(text_list[k], max_len)]

\* A plausible slip: the maximum of no element is taken to be 0 (unwrap_or(0)).
IterMaxOrZero(xs) ==
    IF Len(xs) = 0 THEN Some(0)
    ELSE Some(CHOOSE m \in {xs[k] : k \in 1..Len(xs)} :
                 \A k \in 1..Len(xs) : xs[k] <= m)

\* Iterator::max(): None for no element, else Some(the largest).
IterMax(xs) ==
    IF Len(xs) = 0 THEN NoneOpt
    ELSE Some(CHOOSE m \in {xs[k] : k \in 1..Len(xs)} :
                 \A k \in 1..Len(xs) : xs[k] <= m)

Value(v) == [kind |-> "value", value |-> v]

\* A plausible slip: a tokenizer without a pad id pads with id 0 (unwrap_or(0)).
ExpectPadIdOrZero(tok) ==
    IF tok.pad_id = NoneOpt THEN Value(0) ELSE Value(tok.pad_id[1])

\* self.tokenizer.get_pad_id().expect("... should contain a PAD id")
ExpectPadId(tok) ==
    IF tok.pad_id = NoneOpt
    THEN Panic("The Tokenizer used for sequence classification should contain a PAD id")
    ELSE Value(tok.pad_id[1])

\* A plausible slip: every row is padded to the configured maximum of 128.
PadRowToMaxSeqLen(token_ids, pad, max_len) ==
    token_ids \o [k \in 1..(MaxSeqLen - Len(token_ids)) |-> pad]

\* input.extend(vec![pad; max_len - input.len()])
PadRow(token_ids, pad, max_len) ==
    token_ids \o [k \in 1..(max_len - Len(token_ids)) |-> pad]

\* prepare_for_model(&self, input): the stacked tensor, or the panic that ends it.
\* vec![elem; n] evaluates elem whatever n is, so a missing pad id panics on the
\* first row even when that row needs no padding.
PrepareForModel(self, text_list) ==
    LET tokenized_input == EncodeList(text_list, MaxSeqLen)
        max_len == IterMax([k \in 1..Len(tokenized_input) |-> Len(tokenized_input[k])])
        pad == ExpectPadId(self.tokenizer)
    IN  IF max_len = NoneOpt
        THEN Panic("called Option::unwrap() on a None value")
        ELSE IF pad.kind = "panic" THEN pad
        ELSE [kind |-> "tensor",
              rows |-> [k \in 1..Len(tokenized_input) |->
                           PadRow(tokenized_input[k], pad.value, max_len[1])]]

\* The raw lengths the texts of a prepared batch are drawn from: short ones, and
\* ones at and around the truncation length.
TextLens == {1, 2, MaxSeqLen - 1, MaxSeqLen, MaxSeqLen + 1}

PrepareBatches ==
    UNION {[1..n -> {RawTokens(len) : len \in TextLens}] : n \in 0..MaxBatch}

idleNew ==
    /\ cfg = Unset /\ steps = <<>>
    /\ tokenizer = Unset /\ model_config = Unset /\ sequence_classifier = Unset
    /\ label_mapping = <<>> /\ var_store = None /\ result = Unset
    /\ opt_in = Unset /\ opt_out = Unset /\ reported = None /\ fwd = Unset

InitPrepare ==
    /\ pc = "prepare"
    /\ idleNew
    /\ facade \in ReadyFacades
    /\ input \in PrepareBatches
    /\ threshold = 0 /\ input_tensor = <<>>
    /\ output = <<>> /\ labels = <<>> /\ outcome = None

\* self.prepare_for_model(input.to_vec())
Prepare ==
    /\ pc = "prepare"
    /\ LET t == PrepareForModel(facade, input)
       IN IF t.kind = "panic"
          THEN outcome' = "panic" /\ UNCHANGED input_tensor
          ELSE outcome' = "ok" /\ input_tensor' = t.rows
    /\ pc' = "prepared"
    /\ UNCHANGED <<newVars, optVars, facade, input, threshold, output, labels>>

NextPrepare == Prepare

SpecPrepare == InitPrepare /\ [][NextPrepare]_vars

\* ------------------------------------------------------------- forward_t

\* The arguments predict and predict_multilabel give forward_t:
\* (Some(input_tensor.copy()), None, None, None, None, false).
PredictArgs(tensor) ==
    [input_ids |-> Some(tensor), mask |-> NoneOpt, token_type_ids |-> NoneOpt,
     position_ids |-> NoneOpt, input_embeds |-> NoneOpt, train |-> FALSE]

\* A plausible slip: the Albert arm leaves out input_embeds.
ForwardTAlbertDropsEmbeds(self, a) ==
    CASE self.variant = "Bart" ->
            IF a.input_ids = NoneOpt
            THEN Panic("input_ids must be provided for BART models")
            ELSE [kind |-> "call", model |-> "Bart", field |-> "decoder_output",
                  passed |-> [input_ids |-> a.input_ids, mask |-> a.mask,
                              token_type_ids |-> NoneOpt, position_ids |-> NoneOpt,
                              input_embeds |-> NoneOpt, train |-> a.train]]
      [] self.variant = "Bert" ->
            [kind |-> "call", model |-> "Bert", field |-> "logits", passed |-> a]
      [] self.variant = "DistilBert" ->
            [kind |-> "call", model |-> "DistilBert", field |-> "logits",
             passed |-> [input_ids |-> a.input_ids, mask |-> a.mask,
                         token_type_ids |-> NoneOpt, position_ids |-> NoneOpt,
                         input_embeds |-> a.input_embeds, train |-> a.train]]
      [] self.variant \in {"Roberta", "XLMRoberta"} ->
            [kind |-> "call", model |-> "Roberta", field |-> "0", passed |-> a]
      [] self.variant = "Albert" ->
            [kind |-> "call", model |-> "Albert", field |-> "logits",
             passed |-> [a EXCEPT !.input_embeds = NoneOpt]]

\* SequenceClassificationOption::forward_t: the call made on the underlying model
\* (which arguments it is given), or the panic that ends it.
ForwardT(self, a) ==
    CASE self.variant = "Bart" ->
            IF a.input_ids = NoneOpt
            THEN Panic("input_ids must be provided for BART models")
            ELSE [kind |-> "call", model |-> "Bart", field |-> "decoder_output",
                  passed |-> [input_ids |-> a.input_ids, mask |-> a.mask,
                              token_type_ids |-> NoneOpt, position_ids |-> NoneOpt,
                              input_embeds |-> NoneOpt, train |-> a.train]]
      [] self.variant = "Bert" ->
            [kind |-> "call", model |-> "Bert", field |-> "logits", passed |-> a]
      [] self.variant = "DistilBert" ->
            [kind |-> "call", model |-> "DistilBert", field |-> "logits",
             passed |-> [input_ids |-> a.input_ids, mask |-> a.mask,
                         token_type_ids |-> NoneOpt, position_ids |-> NoneOpt,
                         input_embeds |-> a.input_embeds, train |-> a.train]]
      [] self.variant \in {"Roberta", "XLMRoberta"} ->
            [kind |-> "call", model |-> "Roberta", field |-> "0", passed |-> a]
      [] self.variant = "Albert" ->
            [kind |-> "call", model |-> "Albert", field |-> "logits", passed |-> a]

\* The values one logit takes.
LogitValues == {-1, 1}

\* The logits tensors, of shape [batch, num_classes], a model can answer with.
LogitTensors(batch) == [1..batch -> [1..NumClasses -> LogitValues]]

\* e^x in thousandths.
ExpMilli(x) ==
    CASE x = -1 -> 368
      [] x = 0 -> 1000
      [] x = 1 -> 2718

RECURSIVE SumSeq(_)
SumSeq(xs) == IF xs = <<>> THEN 0 ELSE xs[1] + SumSeq(Tail(xs))

\* output.softmax(-1, Kind::Float): each row divided by the sum of its exponentials.
Softmax(t) ==
    [s \in 1..Len(t) |->
        LET e == [c \in 1..Len(t[s]) |-> ExpMilli(t[s][c])]
        IN  [c \in 1..Len(t[s]) |-> (e[c] * Scale) \div SumSeq(e)]]

\* output.sigmoid(): 1 / (1 + e^-x), elementwise.
Sigmoid(t) ==
    [s \in 1..Len(t) |->
        [c \in 1..Len(t[s]) |-> (Scale * Scale) \div (Scale + ExpMilli(0 - t[s][c]))]]

\* ---------------------------------------------------------------- predict

Label(text, score, id, sentence) ==
    [text |-> text, score |-> score, id |-> id, sentence |-> sentence]

\* A plausible slip: the index of the smallest value is taken.
ArgMin(row) ==
    CHOOSE c \in 0..(Len(row) - 1) :
        /\ \A d \in 0..(Len(row) - 1) : row[d + 1] >= row[c + 1]
        /\ \A d \in 0..(c - 1) : row[d + 1] > row[c + 1]

\* argmax(-1, true) on one row: the (first) index of its largest value, 0-based.
ArgMax(row) ==
    CHOOSE c \in 0..(Len(row) - 1) :
        /\ \A d \in 0..(Len(row) - 1) : row[d + 1] <= row[c + 1]
        /\ \A d \in 0..(c - 1) : row[d + 1] < row[c + 1]

\* HashMap::get: Some(the value) or None.
Get(map, key) == IF key \in DOMAIN map THEN Some(map[key]) ELSE NoneOpt

\* A plausible slip: sentence numbers start at one.
PredictLabelOneBased(self, label_indices, scores, sentence_idx) ==
    Label(self.label_mapping[label_indices[sentence_idx + 1]],
          scores[sentence_idx + 1],
          label_indices[sentence_idx + 1],
          sentence_idx + 1)

\* The Label the loop of predict builds for sentence_idx (its id is in the mapping).
PredictLabel(self, label_indices, scores, sentence_idx) ==
    Label(self.label_mapping[label_indices[sentence_idx + 1]],
          scores[sentence_idx + 1],
          label_indices[sentence_idx + 1],
          sentence_idx)

\* predict, from the softmax output on: arg-max, gather, and the loop over
\* 0..label_indices.len(); an id absent from the mapping panics (get().unwrap()).
PredictDecode(self, out) ==
    LET label_indices == [s \in 1..Len(out) |-> ArgMax(out[s])]
        scores == [s \in 1..Len(out) |-> out[s][label_indices[s] + 1]]
    IN  IF \E s \in 1..Len(out) : Get(self.label_mapping, label_indices[s]) = NoneOpt
        THEN Panic("called Option::unwrap() on a None value")
        ELSE Value([s \in 1..Len(out) |-> PredictLabel(self, label_indices, scores, s - 1)])

\* ------------------------------------------------------ predict_multilabel

\* A plausible slip: the comparison is strict.
NonZeroGt(out, th) ==
    LET k == IF Len(out) = 0 THEN 0 ELSE Len(out[1])
        cells == [i \in 1..(Len(out) * k) |-> <<(i - 1) \div k, (i - 1) % k>>]
        Selected(p) == out[p[1] + 1][p[2] + 1] > th
    IN  SelectSeq(cells, Selected)

\* output.ge(threshold).nonzero(): the (sentence, class) coordinates whose score is
\* >= threshold, in row-major order.
NonZeroGe(out, th) ==
    LET k == IF Len(out) = 0 THEN 0 ELSE Len(out[1])
        cells == [i \in 1..(Len(out) * k) |-> <<(i - 1) \div k, (i - 1) % k>>]
        Selected(p) == out[p[1] + 1][p[2] + 1] >= th
    IN  SelectSeq(cells, Selected)

\* A plausible slip: the last list is pushed whether or not it is empty.
RECURSIVE MultilabelLoopAlwaysPush(_, _, _, _, _, _)
MultilabelLoopAlwaysPush(self, out, label_indices, i, lbls, sequence_labels) ==
    IF i > Len(label_indices)
    THEN Value(Append(lbls, sequence_labels))
    ELSE LET sentence == label_indices[i][1]
             id == label_indices[i][2]
             push == sentence > Len(lbls)
             lbls1 == IF push THEN Append(lbls, sequence_labels) ELSE lbls
             seq1 == IF push THEN <<>> ELSE sequence_labels
             score == out[sentence + 1][id + 1]
             label_string == Get(self.label_mapping, id)
         IN  IF label_string = NoneOpt
             THEN Panic("called Option::unwrap() on a None value")
             ELSE MultilabelLoopAlwaysPush(self, out, label_indices, i + 1, lbls1,
                                 Append(seq1, Label(label_string[1], score, id, sentence)))

\* The loop of predict_multilabel from position i of label_indices on, with the
\* lists built so far; then the push of a non-empty last list.
RECURSIVE MultilabelLoop(_, _, _, _, _, _)
MultilabelLoop(self, out, label_indices, i, lbls, sequence_labels) ==
    IF i > Len(label_indices)
    THEN Value(IF sequence_labels # <<>> THEN Append(lbls, sequence_labels) ELSE lbls)
    ELSE LET sentence == label_indices[i][1]
             id == label_indices[i][2]
             push == sentence > Len(lbls)
             lbls1 == IF push THEN Append(lbls, sequence_labels) ELSE lbls
             seq1 == IF push THEN <<>> ELSE sequence_labels
             score == out[sentence + 1][id + 1]
             label_string == Get(self.label_mapping, id)
         IN  IF label_string = NoneOpt
             THEN Panic("called Option::unwrap() on a None value")
             ELSE MultilabelLoop(self, out, label_indices, i + 1, lbls1,
                                 Append(seq1, Label(label_string[1], score, id, sentence)))

\* predict_multilabel, from the sigmoid output on.
MultilabelDecode(self, out, th) ==
    MultilabelLoop(self, out, NonZeroGe(out, th), 1, <<>>, <<>>)

\* The thresholds given: below, at and above the scores a sigmoid yields.
Thresholds ==
    LET lo == Sigmoid(<<<<-1>>>>)[1][1]
        hi == Sigmoid(<<<<1>>>>)[1][1]
    IN  {0, lo, Scale \div 2, hi, hi + 1, Scale}

\* The batches given to predict and predict_multilabel: text k has k tokens.
Batches == {[k \in 1..n |-> RawTokens(k)] : n \in 0..MaxBatch}

InitPredict ==
    /\ pc = "call"
    /\ idleNew
    /\ facade \in ReadyFacades
    /\ input \in Batches
    /\ threshold = 0 /\ input_tensor = <<>>
    /\ output = <<>> /\ labels = <<>> /\ outcome = None

\* pub fn predict(&self, input: &[&str]) -> Vec<Label>
Predict ==
    /\ pc = "call"
    /\ pc' = "predict_done"
    /\ LET t == PrepareForModel(facade, input)
       IN IF t.kind = "panic"
          THEN outcome' = "panic" /\ UNCHANGED <<input_tensor, output, labels>>
          ELSE LET f == ForwardT(facade.sequence_classifier, PredictArgs(t.rows))
               IN /\ input_tensor' = t.rows
                  /\ IF f.kind = "panic"
                     THEN outcome' = "panic" /\ UNCHANGED <<output, labels>>
                     ELSE \E logits \in LogitTensors(Len(f.passed.input_ids[1])) :
                             LET r == PredictDecode(facade, Softmax(logits))
                             IN /\ output' = Softmax(logits)
                                /\ IF r.kind = "panic"
                                   THEN outcome' = "panic" /\ UNCHANGED labels
                                   ELSE outcome' = "ok" /\ labels' = r.value
    /\ UNCHANGED <<newVars, optVars, facade, input, threshold>>

\* pub fn predict_multilabel(&self, input: &[&str], threshold: f64)
\*     -> Result<Vec<Vec<Label>>, RustBertError>
PredictMultilabel ==
    /\ pc = "call"
    /\ pc' = "multilabel_done"
    /\ \E th \in Thresholds :
       /\ threshold' = th
       /\ LET t == PrepareForModel(facade, input)
          IN IF t.kind = "panic"
             THEN outcome' = "panic" /\ UNCHANGED <<input_tensor, output, labels>>
             ELSE LET f == ForwardT(facade.sequence_classifier, PredictArgs(t.rows))
                  IN /\ input_tensor' = t.rows
                     /\ IF f.kind = "panic"
                        THEN outcome' = "panic" /\ UNCHANGED <<output, labels>>
                        ELSE \E logits \in LogitTensors(Len(f.passed.input_ids[1])) :
                                LET r == MultilabelDecode(facade, Sigmoid(logits), th)
                                IN /\ output' = Sigmoid(logits)
                                   /\ IF r.kind = "panic"
                                      THEN outcome' = "panic" /\ UNCHANGED labels
                                      ELSE outcome' = "ok" /\ labels' = r.value
    /\ UNCHANGED <<newVars, optVars, facade, input>>

NextPredict ==
    \/ Predict
    \/ PredictMultilabel

SpecPredict == InitPredict /\ [][NextPredict]_vars

\* ------------------------------------------------- direct forward_t calls

\* The arguments forward_t can be given: each optional tensor absent or present,
\* and the training flag. A tensor is named after the argument it is given as.
ForwardArgs ==
    [input_ids : {NoneOpt, Some("input_ids")},
     mask : {NoneOpt, Some("mask")},
     token_type_ids : {NoneOpt, Some("token_type_ids")},
     position_ids : {NoneOpt, Some("position_ids")},
     input_embeds : {NoneOpt, Some("input_embeds")},
     train : BOOLEAN]

\* What the underlying model answers: DistilBertModelClassifier::forward_t returns
\* a Result, the other models return their output.
ModelAnswers(variant) == IF variant = "DistilBert" THEN {"ok", "err"} ELSE {"ok"}

\* The value of forward_t for the call made and the answer of the model: the
\* field taken from the output, or the panic of .expect on an Err.
\* (predict and predict_multilabel pass token ids alone, which the DistilBert
\* model of the default configuration answers with Ok.)
ForwardResult(call, answer) ==
    IF call.kind = "panic" THEN call
    ELSE IF answer = "err" THEN Panic("Error in distilbert forward_t")
    ELSE [kind |-> "tensor", model |-> call.model, field |-> call.field,
          passed |-> call.passed]

InitForward ==
    /\ pc = "forward"
    /\ opt_out \in {Option(v) : v \in ModelType \ {"Electra", "Marian", "T5"}}
    /\ \E a \in ForwardArgs : \E ans \in ModelAnswers(opt_out.variant) :
          fwd = [kind |-> "forward", args |-> a, answer |-> ans, out |-> Unset]
    /\ opt_in = Unset /\ reported = None
    /\ cfg = Unset /\ steps = <<>>
    /\ tokenizer = Unset /\ model_config = Unset /\ sequence_classifier = Unset
    /\ label_mapping = <<>> /\ var_store = None /\ result = Unset
    /\ facade = NoFacade
    /\ input = <<>> /\ threshold = 0 /\ input_tensor = <<>>
    /\ output = <<>> /\ labels = <<>> /\ outcome = None

\* option.forward_t(input_ids, mask, token_type_ids, position_ids, input_embeds, train)
ForwardCall ==
    /\ pc = "forward"
    /\ fwd' = [fwd EXCEPT !.out = ForwardResult(ForwardT(opt_out, fwd.args), fwd.answer)]
    /\ pc' = "forward_done"
    /\ UNCHANGED <<opt_in, opt_out, reported, newVars, facade, callVars>>

NextForward == ForwardCall

SpecForward == InitForward /\ [][NextForward]_vars

\* ================================================================ claims

\* The families SequenceClassificationOption::new implements no head for.
Headless == {"Electra", "Marian", "T5"}

\* The configuration variant matches the family: it is the variant the family
\* loads (Roberta and XLMRoberta load a BertConfig), and the family has a head.
Matches(model_type, config) ==
    model_type \notin Headless /\ config = ConfigOption_from_file(model_type)

OptionCalled == pc \in {"option_built", "option_panicked", "option_reported"}

SetOf(seq) == {seq[k] : k \in 1..Len(seq)}

\* C7: SequenceClassificationOption::new returns an option, the variant of the
\* requested family, exactly when the configuration variant matches the family;
\* every other pair, and every pair of a family without a head, panics (no error
\* value). In the facade the panic comes at the model-option step: the weights
\* were not loaded, no facade exists and no forward pass was run.
C7_OptionNewMatches ==
    /\ OptionCalled =>
          IF Matches(opt_in.model_type, opt_in.config)
          THEN opt_out = Option(opt_in.model_type)
          ELSE opt_out.kind = "panic"
    /\ (cfg # Unset /\ "sequence_classifier" \in SetOf(steps)) =>
          IF cfg.model_type \in Headless
          THEN /\ result.kind = "panic"
               /\ result.step = "sequence_classifier"
               /\ sequence_classifier = Unset
               /\ "load" \notin SetOf(steps)
               /\ var_store # "loaded"
               /\ facade = NoFacade
               /\ output = <<>>
          ELSE /\ result.kind # "panic"
               /\ sequence_classifier = Option(cfg.model_type)

C7_Witness ==
    /\ pc = "option_panicked"
    /\ opt_in.model_type = "Bart"
    /\ opt_in.config = "Bert"
    /\ opt_out.kind = "panic"

\* The steps new() runs for a configuration when none fails.
ExpectedSteps(c) ==
    SelectSeq(StepOrder, LAMBDA st : st # "merges_resource" \/ c.merges_resource # None)

\* Whether a step of new() fails for a configuration.
StepFails(c, st) ==
    CASE st = "config_resource" -> c.config_resource # "ok"
      [] st = "vocab_resource" -> c.vocab_resource # "ok"
      [] st = "model_resource" -> c.model_resource # "ok"
      [] st = "merges_resource" -> c.merges_resource # "ok"
      [] st = "tokenizer" -> c.vocab_file # "ok"
      [] st = "sequence_classifier" -> c.model_type \in Headless
      [] st = "load" -> c.weights_file # "ok"
      [] OTHER -> FALSE

\* C8: new() runs its steps in the fixed order; the first step that fails ends it
\* with the failure of that step and no later step runs; a facade exists only when
\* every step has run and succeeded, and then it is complete.
C8_FirstFailureEndsNew ==
    cfg # Unset =>
       /\ Len(steps) <= Len(ExpectedSteps(cfg))
       /\ steps = SubSeq(ExpectedSteps(cfg), 1, Len(steps))
       /\ \A i \in 1..(Len(steps) - 1) : ~StepFails(cfg, steps[i])
       /\ (steps # <<>> /\ StepFails(cfg, steps[Len(steps)])) =>
             /\ result.kind \in {"err", "panic"}
             /\ result.step = steps[Len(steps)]
             /\ pc \in {"returned", "panicked"}
       /\ result.kind \in {"err", "panic"} =>
             /\ steps # <<>>
             /\ result.step = steps[Len(steps)]
             /\ StepFails(cfg, result.step)
       /\ (facade # NoFacade \/ result.kind = "ok" \/ pc = "ready") =>
             /\ pc = "ready"
             /\ result = Ok(facade)
             /\ steps = ExpectedSteps(cfg)
             /\ \A i \in 1..Len(steps) : ~StepFails(cfg, steps[i])
             /\ facade \in ReadyFacades
             /\ facade.tokenizer.pad_id = cfg.pad_id
             /\ facade.sequence_classifier = Option(cfg.model_type)
             /\ facade.label_mapping = LabelMappingOf(cfg.id2label)

C8_Witness ==
    /\ cfg # Unset
    /\ pc = "returned"
    /\ result = Err("model_resource")
    /\ cfg.vocab_file # "ok"
    /\ cfg.weights_file # "ok"
    /\ steps = <<"config_resource", "vocab_resource", "model_resource">>

\* C10: model_type() on an option built from family tag t reports t, except that
\* an option built from XLMRoberta reports Roberta; it never reports a family
\* without a head.
C10_ModelTypeEchoesTag ==
    pc = "option_reported" =>
       /\ reported = (IF opt_in.model_type = "XLMRoberta" THEN "Roberta"
                      ELSE opt_in.model_type)
       /\ reported \notin Headless

C10_Witness ==
    /\ pc = "option_reported"
    /\ opt_in.model_type = "XLMRoberta"
    /\ reported = "Roberta"

\* The length of text k of the batch once tokenized and truncated.
TokenLen(k) == Min(Len(input[k]), MaxSeqLen)

\* The largest of the truncated lengths of a non-empty batch.
BatchMaxLen ==
    CHOOSE m \in {TokenLen(k) : k \in 1..Len(input)} :
        \A k \in 1..Len(input) : TokenLen(k) <= m

\* C6: for a non-empty batch and a tokenizer with a pad id, prepare_for_model
\* builds one row per text, every row of width min(128, max(L)), the batch-local
\* maximum; row k is the token ids of text k, unchanged, in its first lk positions
\* and the pad id in every later one. (Without a pad id, or for an empty batch,
\* no tensor is built.)
C6_PaddedToBatchMax ==
    pc = "prepared" =>
       /\ outcome = "ok" <=> (Len(input) > 0 /\ facade.tokenizer.pad_id # NoneOpt)
       /\ outcome = "ok" =>
             /\ Len(input_tensor) = Len(input)
             /\ \A k \in 1..Len(input) :
                   /\ Len(input_tensor[k]) = Min(MaxSeqLen, BatchMaxLen)
                   /\ \A j \in 1..TokenLen(k) : input_tensor[k][j] = input[k][j]
                   /\ \A j \in (TokenLen(k) + 1)..Len(input_tensor[k]) :
                         input_tensor[k][j] = facade.tokenizer.pad_id[1]

\* A batch of a one-token and a two-token text: the tensor is two wide, not 128,
\* and the first row ends in one pad id.
C6_Witness ==
    /\ pc = "prepared"
    /\ outcome = "ok"
    /\ Len(input) = 2
    /\ Len(input[1]) = 1
    /\ Len(input[2]) = 2
    /\ Len(input_tensor[1]) = 2
    /\ input_tensor[1][2] = facade.tokenizer.pad_id[1]

\* ----------------------------------------------- predict_multilabel claims

MultilabelReturned == pc = "multilabel_done" /\ outcome = "ok"

\* The (sentence, class) pairs, 0-based, whose sigmoid score is >= threshold.
SelectedPairs ==
    {p \in (0..(Len(output) - 1)) \X (0..(NumClasses - 1)) :
        output[p[1] + 1][p[2] + 1] >= threshold}

RECURSIVE Flatten(_)
Flatten(lists) == IF lists = <<>> THEN <<>> ELSE lists[1] \o Flatten(Tail(lists))

\* C1: whenever predict_multilabel returns, the outer list has one inner list per
\* input text, in input order, and a text with no selected pair has an empty
\* inner list at its own position.
C1_OneListPerInput ==
    MultilabelReturned =>
       /\ Len(labels) = Len(input)
       /\ \A i \in 1..Len(input) :
             (\A p \in SelectedPairs : p[1] # i - 1) => labels[i] = <<>>

\* C2: whenever predict_multilabel returns, every label of the inner list at
\* position i has sentence = i, so the labels of one sentence are all in one list,
\* the one at the position of the sentence.
C2_GroupedBySentence ==
    MultilabelReturned =>
       \A i \in 1..Len(labels) :
          \A j \in 1..Len(labels[i]) : labels[i][j].sentence = i - 1

\* C3: whenever predict_multilabel returns, the labels of all inner lists are
\* exactly the pairs whose sigmoid score is >= threshold, each once: the id of a
\* label is the class of its pair, its sentence the row, its score the sigmoid
\* value at that coordinate (so none is below the threshold) and its text the
\* entry of the label mapping for the id.
C3_LabelsAreSelectedPairs ==
    MultilabelReturned =>
       LET flat == Flatten(labels)
       IN  /\ Len(flat) = Cardinality(SelectedPairs)
           /\ {<<flat[i].sentence, flat[i].id>> : i \in 1..Len(flat)} = SelectedPairs
           /\ \A i \in 1..Len(flat) :
                 /\ flat[i].score = output[flat[i].sentence + 1][flat[i].id + 1]
                 /\ flat[i].score >= threshold
                 /\ flat[i].text = facade.label_mapping[flat[i].id]

\* Three texts, some pair selected and some not, and sentence 1 without a label.
C3_Witness ==
    /\ MultilabelReturned
    /\ Len(input) = 3
    /\ SelectedPairs # {}
    /\ Cardinality(SelectedPairs) < 3 * NumClasses
    /\ \A p \in SelectedPairs : p[1] # 1
    /\ \E p \in SelectedPairs : p[1] = 2

\* ---------------------------------------------------------- predict claims

PredictReturned == pc = "predict_done" /\ outcome = "ok"

\* The largest value of a row.
RowMax(row) ==
    CHOOSE m \in {row[c] : c \in 1..Len(row)} : \A c \in 1..Len(row) : row[c] <= m

C5_LabelIsArgMax ==
    PredictReturned =>
       \A i \in 1..Len(labels) :
          /\ labels[i].id \in 0..(NumClasses - 1)
          /\ output[i][labels[i].id + 1] = RowMax(output[i])
          /\ labels[i].score = RowMax(output[i])
          /\ labels[i].score >= 0
          /\ labels[i].score <= Scale
          /\ labels[i].id \in DOMAIN facade.label_mapping
          /\ labels[i].text = facade.label_mapping[labels[i].id]

\* Two sentences with different arg-max classes, neither row uniform.
C5_Witness ==
    /\ PredictReturned
    /\ Len(labels) >= 2
    /\ labels[1].id = 0
    /\ labels[2].id = NumClasses - 1
    /\ \E c \in 1..NumClasses : output[1][c] < labels[1].score
    /\ \E c \in 1..NumClasses : output[2][c] < labels[2].score

\* ------------------------------------------------------ failure-tier claims

Called == pc \in {"predict_done", "multilabel_done"}

\* The class ids the decoding of the call looks up in the label mapping.
LookedUp ==
    IF pc = "predict_done"
    THEN {c \in 0..(NumClasses - 1) :
             \E s \in 1..Len(output) :
                /\ output[s][c + 1] = RowMax(output[s])
                /\ \A d \in 0..(c - 1) : output[s][d + 1] < output[s][c + 1]}
    ELSE {p[2] : p \in SelectedPairs}

\* C9: on a ready facade neither predict nor predict_multilabel ends with an error
\* value: a call returns a success value or panics. A tokenizer without a pad id
\* and a looked-up class id absent from the label mapping each end the call by a
\* panic, with no labels returned.
C9_NoRecoverableError ==
    Called =>
       /\ outcome \in {"ok", "panic"}
       /\ facade.tokenizer.pad_id = NoneOpt => outcome = "panic"
       /\ (\E c \in LookedUp : c \notin DOMAIN facade.label_mapping) => outcome = "panic"
       /\ outcome = "panic" => labels = <<>>
       /\ outcome = "panic" =>
             \/ Len(input) = 0
             \/ facade.tokenizer.pad_id = NoneOpt
             \/ \E c \in LookedUp : c \notin DOMAIN facade.label_mapping

\* predict_multilabel panicked on a class id that the label mapping lacks, the
\* tokenizer having a pad id.
C9_Witness ==
    /\ pc = "multilabel_done"
    /\ outcome = "panic"
    /\ facade.tokenizer.pad_id # NoneOpt
    /\ output # <<>>
    /\ \E c \in LookedUp : c \notin DOMAIN facade.label_mapping

\* ------------------------------------------------------- forward_t claims

ForwardDone == pc = "forward_done"

\* The arguments a variant hands to its model when it hands all of them on.
PassesAll == fwd.out.kind = "tensor" /\ fwd.out.passed = fwd.args

\* C11 as stated: Bart panics when the token ids are absent, and every other
\* variant (Bert, DistilBert, Roberta, XLMRoberta, Albert) hands every argument it
\* was given, and the training flag, to its model unchanged.
C11_OthersPassEverything ==
    ForwardDone =>
       /\ (opt_out.variant = "Bart" /\ fwd.args.input_ids = NoneOpt) =>
             fwd.out.kind = "panic"
       /\ (opt_out.variant # "Bart" /\ fwd.out.kind = "tensor") =>
             fwd.out.passed = fwd.args

\* C11 (amended): Bart is the one variant that panics when the token ids are
\* absent, and only then. Bert, Roberta, XLMRoberta and Albert hand all five
\* optional arguments and the training flag to their model unchanged. DistilBert
\* hands on the token ids, the mask, the input embeddings and the training flag
\* unchanged, hands on no token-type ids and no position ids, and panics exactly
\* when its model answers with an error.
C11_ForwardDispatch ==
    ForwardDone =>
       /\ opt_out.variant = "Bart" =>
             /\ fwd.out.kind = "panic" <=> fwd.args.input_ids = NoneOpt
       /\ opt_out.variant \in {"Bert", "Roberta", "XLMRoberta", "Albert"} => PassesAll
       /\ opt_out.variant = "DistilBert" =>
             /\ fwd.out.kind = "panic" <=> fwd.answer = "err"
             /\ fwd.out.kind = "tensor" =>
                   /\ fwd.out.passed.input_ids = fwd.args.input_ids
                   /\ fwd.out.passed.mask = fwd.args.mask
                   /\ fwd.out.passed.input_embeds = fwd.args.input_embeds
                   /\ fwd.out.passed.train = fwd.args.train
                   /\ fwd.out.passed.token_type_ids = NoneOpt
                   /\ fwd.out.passed.position_ids = NoneOpt
       /\ (fwd.args.input_ids = NoneOpt /\ fwd.answer = "ok" /\ fwd.out.kind = "panic") =>
             opt_out.variant = "Bart"

\* DistilBert given every optional argument: the call is made without the
\* token-type ids and the position ids.
C11_Witness ==
    /\ ForwardDone
    /\ opt_out.variant = "DistilBert"
    /\ fwd.out.kind = "tensor"
    /\ fwd.args.input_ids # NoneOpt
    /\ fwd.args.token_type_ids # NoneOpt
    /\ fwd.args.position_ids # NoneOpt
    /\ fwd.out.passed # fwd.args

\* -------------------------------------- predict_multilabel: shape of the result

\* The largest sentence index among the selected pairs (some pair is selected).
MaxSelectedSentence ==
    CHOOSE m \in {p[1] : p \in SelectedPairs} : \A p \in SelectedPairs : p[1] <= m

C13_EmptyBatchPanics ==
    (Called /\ Len(input) = 0) =>
       /\ outcome = "panic"
       /\ PrepareForModel(facade, input) = Panic("called Option::unwrap() on a None value")
       /\ input_tensor = <<>>
       /\ output = <<>>
       /\ labels = <<>>

\* predict_multilabel called with no text on a facade whose tokenizer has a pad
\* id and whose label mapping is complete.
C13_Witness ==
    /\ pc = "multilabel_done"
    /\ Len(input) = 0
    /\ facade.tokenizer.pad_id # NoneOpt
    /\ DOMAIN facade.label_mapping = 0..(NumClasses - 1)
    /\ outcome = "panic"

====
